---- MODULE Spec2Model ----
(***************************************************************************)
(* Model of telegnotion_bot.py: a Telegram bot that turns each text, photo *)
(* or document message into one Notion page.                               *)
(*                                                                         *)
(* Python strings whose characters matter (texts, file names, titles) are  *)
(* sequences of one-character strings.  An Optional[str] is a sequence of  *)
(* at most one such string: None is << >>, the string s is << s >>.        *)
(* Literal strings that are only passed around (reply texts, URLs, log     *)
(* lines) are TLA+ strings.                                                *)
(***************************************************************************)
EXTENDS Integers, Sequences, FiniteSets, TLC

VARIABLES
    env,        \* os.getenv results of the three configuration variables
    phase,      \* where the process is: import, configured, ready, polling, crashed, exited
    handlers,   \* handlers registered with the Application, in registration order
    error_handlers, \* error handlers registered with the Application
    update,     \* per update slot: the received Update ("none" before it arrives)
    pc,         \* per update slot: position of the coroutine handling it
    replies,    \* per update slot: reply_text calls made, [text, ok]
    files,      \* per update slot: bot.get_file calls made, [file_id, ok, file_path]
    creates,    \* per update slot: notion.pages.create calls made, [parent, properties, outcome]
    forwarded,  \* per update slot: save_to_notion completions, [raised, value]
    log,        \* per update slot: logger records written while handling it
    built       \* last record-builder call (builder specification only)

vars == << env, phase, handlers, error_handlers, update, pc, replies, files,
           creates, forwarded, log, built >>

procVars == << env, phase, handlers, error_handlers, update, pc, replies, files,
               creates, forwarded, log >>

(***************************************************************************)
(* Bounds of the model.                                                    *)
(***************************************************************************)
MaxUpdates == 2     \* update slots, handled concurrently
MaxTextLen == 33    \* longest text given to get_text_properties
MaxNameLen == 96    \* longest file name given to get_file_properties

(***************************************************************************)
(* Python str operations.                                                  *)
(***************************************************************************)
None == << >>
Some(s) == << s >>

\* Python truthiness of an Optional[str]: None and "" are falsy.
Truthy(opt) == opt # None /\ Len(opt[1]) > 0

Min(a, b) == IF a < b THEN a ELSE b

\* s[:n]
Slice(s, n) == SubSeq(s, 1, Min(Len(s), n))

LowerCase == << "a","b","c","d","e","f","g","h","i","j","k","l","m",
                "n","o","p","q","r","s","t","u","v","w","x","y","z" >>
UpperCase == << "A","B","C","D","E","F","G","H","I","J","K","L","M",
                "N","O","P","Q","R","S","T","U","V","W","X","Y","Z" >>

Upper(c) == IF \E i \in 1..Len(LowerCase) : LowerCase[i] = c
            THEN UpperCase[CHOOSE i \in 1..Len(LowerCase) : LowerCase[i] = c]
            ELSE c
Lower(c) == IF \E i \in 1..Len(UpperCase) : UpperCase[i] = c
            THEN LowerCase[CHOOSE i \in 1..Len(UpperCase) : UpperCase[i] = c]
            ELSE c

\* A plausible slip: str.upper() instead of str.capitalize().
CapitalizeAllUpper(s) == [i \in 1..Len(s) |-> Upper(s[i])]

\* str.capitalize(): first character upper-cased, the rest lower-cased.
Capitalize(s) == [i \in 1..Len(s) |-> IF i = 1 THEN Upper(s[i]) ELSE Lower(s[i])]

Digits == << "0","1","2","3","4","5","6","7","8","9" >>
Digit(d) == Digits[d + 1]
Pad2(n) == << Digit((n \div 10) % 10), Digit(n % 10) >>
Pad4(n) == << Digit((n \div 1000) % 10), Digit((n \div 100) % 10),
              Digit((n \div 10) % 10), Digit(n % 10) >>

\* datetime.strftime('%Y-%m-%d_%H-%M-%S')
strftime(now) ==
    Pad4(now.year) \o << "-" >> \o Pad2(now.month) \o << "-" >> \o Pad2(now.day)
    \o << "_" >> \o Pad2(now.hour) \o << "-" >> \o Pad2(now.minute)
    \o << "-" >> \o Pad2(now.second)

(***************************************************************************)
(* Literals of the program.                                                *)
(***************************************************************************)
TYPE_TEXTE == << "T","e","x","t","e" >>
TYPE_IMAGE == << "I","m","a","g","e" >>
TYPE_DOCUMENT == << "D","o","c","u","m","e","n","t" >>
COLON_SPACE == << ":"," " >>

TextTitleLen == 30
FileTitleLen == 100

(***************************************************************************)
(* Record builders.                                                        *)
(***************************************************************************)
\* A plausible slip: the title length the source comment announces.
get_text_properties_100(text) ==
    [ Name |-> [title |-> << [text |-> [content |-> Slice(text, 100)]] >>],
      Type |-> [select |-> [name |-> TYPE_TEXTE]],
      Contenu |-> [rich_text |-> << [type |-> "text", text |-> [content |-> text]] >>] ]

get_text_properties(text) ==
    LET title == Slice(text, TextTitleLen)
    IN  [ Name |-> [title |-> << [text |-> [content |-> title]] >>],
          Type |-> [select |-> [name |-> TYPE_TEXTE]],
          Contenu |-> [rich_text |-> << [type |-> "text", text |-> [content |-> text]] >>] ]

\* A plausible slip: the title is not cut.
get_file_properties_uncut(file, file_type, filename, now) ==
    [ Name |-> [title |-> << [text |-> [content |->
                  Capitalize(file_type) \o COLON_SPACE
                  \o (IF Truthy(filename) THEN filename[1] ELSE strftime(now))]] >>],
      Type |-> [select |-> [name |-> Capitalize(file_type)]] ]
    @@ ("Fichier URL" :> [url |-> file.file_path])

\* `now` is the value datetime.datetime.now() returns during the call.
get_file_properties(file, file_type, filename, now) ==
    LET file_url == file.file_path
        page_title == Capitalize(file_type) \o COLON_SPACE
                      \o (IF Truthy(filename) THEN filename[1] ELSE strftime(now))
    IN  [ Name |-> [title |-> << [text |-> [content |-> Slice(page_title, FileTitleLen)]] >>],
          Type |-> [select |-> [name |-> Capitalize(file_type)]] ]
        @@ ("Fichier URL" :> [url |-> file_url])

\* Field readers of a payload.
NameOf(p) == p.Name.title[1].text.content
TypeOf(p) == p.Type.select.name
ContenuOf(p) == p.Contenu.rich_text[1].text.content
UrlOf(p) == p["Fichier URL"].url

(***************************************************************************)
(* Inputs of the record builders.                                          *)
(***************************************************************************)
Alphabet == << "a", "B", " ", "é", ".", "/" >>
Patterns == 1..2

\* The text of length n whose i-th character is Alphabet[(i * k) mod 6 + 1].
TextOf(n, k) == [i \in 1..n |-> Alphabet[((i * k) % Len(Alphabet)) + 1]]

HELLO_WORLD == << "H","e","l","l","o"," ","w","o","r","l","d" >>
REPORT_PDF == << "r","e","p","o","r","t",".","p","d","f" >>

TextInputs == { HELLO_WORLD } \cup { TextOf(n, k) : n \in 0..MaxTextLen, k \in Patterns }
NameInputs == { None, Some(REPORT_PDF) }
              \cup { Some(TextOf(n, k)) : n \in 0..MaxNameLen, k \in Patterns }

Urls == { "https://example/x", "https://api.telegram.org/file/bot/documents/file_1.pdf" }
FileInputs == { [file_path |-> u] : u \in Urls }
KindInputs == { TYPE_IMAGE, TYPE_DOCUMENT }

\* Values datetime.datetime.now() may return.
Clocks == { [year |-> 2026, month |-> 11, day |-> 5, hour |-> 9, minute |-> 7, second |-> 0],
            [year |-> 1999, month |-> 12, day |-> 31, hour |-> 23, minute |-> 59, second |-> 59] }

\* The value datetime.datetime.now() returns while the process runs.
RunClocks == { c \in Clocks : c.year = 2026 }

(***************************************************************************)
(* Configuration (module level, lines 10-35).                              *)
(***************************************************************************)
ConfigKeys == { "TELEGRAM_BOT_TOKEN", "NOTION_API_KEY", "NOTION_DATABASE_ID" }

\* os.getenv gives None for an unset variable, "" for one set to nothing.
EnvValues == { None, Some(<< >>), Some(<< "k" >>) }

TELEGRAM_TOKEN == env["TELEGRAM_BOT_TOKEN"]
NOTION_TOKEN == env["NOTION_API_KEY"]
NOTION_DB_ID == env["NOTION_DATABASE_ID"]

\* A plausible slip: any() instead of all().
ConfigAny == Truthy(TELEGRAM_TOKEN) \/ Truthy(NOTION_TOKEN) \/ Truthy(NOTION_DB_ID)

\* all([TELEGRAM_TOKEN, NOTION_TOKEN, NOTION_DB_ID])
ConfigComplete == Truthy(TELEGRAM_TOKEN) /\ Truthy(NOTION_TOKEN) /\ Truthy(NOTION_DB_ID)

(***************************************************************************)
(* Updates delivered by the polling loop.                                  *)
(***************************************************************************)
Slots == 1..MaxUpdates

TEXT_HI == << "H","i" >>
CMD_START == << "/","s","t","a","r","t" >>
X_PDF == << "x",".","p","d","f" >>
NONE_STR == << "N","o","n","e" >>

\* An Update: `message` says whether update.message is set (it is not for an
\* edited message, which the same filters let through and which carries
\* update.edited_message and the user instead), `effective_message` whether
\* update.effective_message is.
NoUpdate == [ is_update |-> FALSE, message |-> FALSE, effective_message |-> FALSE,
              text |-> None, photo |-> << >>, document |-> << >> ]

TextUpdate(t, m) == [ is_update |-> TRUE, message |-> m, effective_message |-> TRUE,
                      text |-> Some(t), photo |-> << >>, document |-> << >> ]
PhotoUpdate(m) == [ is_update |-> TRUE, message |-> m, effective_message |-> TRUE,
                    text |-> None,
                    photo |-> << [file_id |-> "photo_small"], [file_id |-> "photo_large"] >>,
                    document |-> << >> ]
DocumentUpdate(n, m) == [ is_update |-> TRUE, message |-> m, effective_message |-> TRUE,
                          text |-> None, photo |-> << >>,
                          document |-> << [file_id |-> "doc_1", file_name |-> n] >> ]

Updates ==
    { TextUpdate(t, m) : t \in { TEXT_HI, CMD_START }, m \in BOOLEAN }
    \cup { PhotoUpdate(m) : m \in BOOLEAN }
    \cup { DocumentUpdate(Some(X_PDF), m) : m \in BOOLEAN }

\* The download URL Telegram gives for a file identifier.
FilePath == [ id \in { "photo_small", "photo_large", "doc_1" } |->
                IF id = "doc_1" THEN "https://example/x"
                ELSE IF id = "photo_large" THEN "https://example/large.jpg"
                ELSE "https://example/small.jpg" ]

\* The filters the handlers are registered with (lines 173-176).
IsCommand(u) == Truthy(u.text) /\ u.text[1][1] = "/"
Accepts(h, u) ==
    CASE h = "start" -> IsCommand(u) /\ u.text[1] = CMD_START
      [] h = "handle_text" -> Truthy(u.text) /\ ~IsCommand(u)
      [] h = "handle_photo" -> Len(u.photo) > 0
      [] h = "handle_document" -> Len(u.document) > 0
      [] OTHER -> FALSE

\* The handler the Application runs for u: the first registered one whose
\* filter accepts it, "" when there is none.
HandlerFor(u) ==
    IF \E i \in 1..Len(handlers) : Accepts(handlers[i], u)
    THEN handlers[CHOOSE i \in 1..Len(handlers) :
                    /\ Accepts(handlers[i], u)
                    /\ \A j \in 1..(i - 1) : ~Accepts(handlers[j], u)]
    ELSE ""

(***************************************************************************)
(* Reply texts and log lines.                                              *)
(***************************************************************************)
Msg(t) == [ tmpl |-> t, arg |-> << >> ]

GREETING == Msg("Bonjour ! Envoyez-moi du texte, une image ou un document, et je le sauvegarderai dans votre base de données Notion.")
ACK_TEXT == Msg("Traitement du texte...")
ACK_PHOTO == Msg("Traitement de l'image...")
ACK_DOCUMENT == Msg("Traitement du document...")
OK_TEXT == Msg("Texte sauvegardé dans Notion !")
OK_PHOTO == Msg("Image sauvegardée dans Notion !")
\* f"Document '{doc.file_name}' sauvegardé dans Notion !"
OK_DOCUMENT(file_name) ==
    [ tmpl |-> "Document '{doc.file_name}' sauvegardé dans Notion !",
      arg |-> IF file_name = None THEN NONE_STR ELSE file_name[1] ]
OUPS == Msg("Oups ! Une erreur s'est produite lors de la sauvegarde dans Notion.")
DESOLE == Msg("Désolé, une erreur interne est survenue.")

LOG_TEXT == "INFO Message texte reçu"
LOG_PHOTO == "INFO Photo reçue"
LOG_DOCUMENT == "INFO Document reçu"
LOG_CREATED == "INFO Page créée avec succès dans Notion."
LOG_API_ERROR == "ERROR Erreur API Notion"
LOG_UNEXPECTED == "ERROR Erreur inattendue lors de la sauvegarde dans Notion"
LOG_UPDATE_ERROR == "ERROR Exception lors du traitement d'une mise à jour"
LOG_REPLY_ERROR == "ERROR Impossible d'envoyer un message d'erreur à l'utilisateur"

\* How notion.pages.create can end.
CreateOutcomes == { "ok", "APIResponseError", "Exception" }

(***************************************************************************)
(* Forwarder.                                                              *)
(***************************************************************************)
CreateCall(page_properties, outcome) ==
    [ parent |-> [database_id |-> NOTION_DB_ID], properties |-> page_properties,
      outcome |-> outcome ]

\* A plausible slip: only APIResponseError is caught.
save_to_notion_narrow(page_properties, outcome) ==
    [ calls  |-> << CreateCall(page_properties, outcome) >>,
      logs   |-> << CASE outcome = "ok" -> LOG_CREATED
                      [] outcome = "APIResponseError" -> LOG_API_ERROR
                      [] OTHER -> LOG_UNEXPECTED >>,
      raised |-> (outcome = "Exception"),
      value  |-> (outcome = "ok") ]

\* A plausible slip: a failed call is tried once more.
save_to_notion_retry(page_properties, outcome) ==
    [ calls  |-> IF outcome = "ok"
                 THEN << CreateCall(page_properties, outcome) >>
                 ELSE << CreateCall(page_properties, outcome),
                         CreateCall(page_properties, outcome) >>,
      logs   |-> << CASE outcome = "ok" -> LOG_CREATED
                      [] outcome = "APIResponseError" -> LOG_API_ERROR
                      [] OTHER -> LOG_UNEXPECTED >>,
      raised |-> FALSE,
      value  |-> (outcome = "ok") ]

\* A plausible slip: the generic except branch returns True.
save_to_notion_optimistic(page_properties, outcome) ==
    [ calls  |-> << CreateCall(page_properties, outcome) >>,
      logs   |-> << CASE outcome = "ok" -> LOG_CREATED
                      [] outcome = "APIResponseError" -> LOG_API_ERROR
                      [] OTHER -> LOG_UNEXPECTED >>,
      raised |-> FALSE,
      value  |-> (outcome # "APIResponseError") ]

\* save_to_notion when notion.pages.create ends with `outcome`: the calls it
\* made, the records it logged, whether it raised and the value it returned.
save_to_notion(page_properties, outcome) ==
    [ calls  |-> << CreateCall(page_properties, outcome) >>,
      logs   |-> << CASE outcome = "ok" -> LOG_CREATED
                      [] outcome = "APIResponseError" -> LOG_API_ERROR
                      [] OTHER -> LOG_UNEXPECTED >>,
      raised |-> FALSE,
      value  |-> (outcome = "ok") ]

(***************************************************************************)
(* Process start.                                                          *)
(***************************************************************************)
\* Lines 10-18: read the environment, raise ValueError when a value is missing.
load_config ==
    /\ phase = "import"
    /\ phase' = IF ConfigComplete THEN "configured" ELSE "crashed"
    /\ UNCHANGED << env, handlers, error_handlers, update, pc, replies, files,
                    creates, forwarded, log, built >>

\* Lines 28-35: build the Notion client, exit() when that fails.
init_notion ==
    /\ phase = "configured"
    /\ \E ok \in BOOLEAN : phase' = IF ok THEN "ready" ELSE "exited"
    /\ UNCHANGED << env, handlers, error_handlers, update, pc, replies, files,
                    creates, forwarded, log, built >>

\* Lines 167-183: register the handlers and start polling.
main ==
    /\ phase = "ready"
    /\ handlers' = << "start", "handle_text", "handle_photo", "handle_document" >>
    /\ error_handlers' = { "error_handler" }
    /\ phase' = "polling"
    /\ UNCHANGED << env, update, pc, replies, files, creates, forwarded, log, built >>

(***************************************************************************)
(* Handlers.  Each is a coroutine; one disjunct per stretch of code that   *)
(* ends with the completion of an awaited network call.                    *)
(***************************************************************************)
At(e, label) == pc[e].at = label
Goto(e, label) == pc' = [pc EXCEPT ![e] = [at |-> label, error |-> "none"]]
Raise(e, err) == pc' = [pc EXCEPT ![e] = [at |-> "raised", error |-> err]]
Push(f, e, x) == [f EXCEPT ![e] = Append(@, x)]
Extend(f, e, xs) == [f EXCEPT ![e] = @ \o xs]

\* The polling loop hands update u to handler h in slot e.  Updates arrive in
\* order: a slot is used once every lower slot is.
Free(e) ==
    /\ phase = "polling"
    /\ At(e, "idle")
    /\ \A j \in 1..(e - 1) : ~At(j, "idle")

Arrives(e, h, u) ==
    /\ HandlerFor(u) = h
    /\ update' = [update EXCEPT ![e] = u]

\* In the handlers below a reply_text call either completes (ok) or raises;
\* an access through update.message when it is None raises AttributeError.

\* success, the value save_to_notion returned to the handler.
Success(e) == forwarded[e][Len(forwarded[e])].value

start(e) ==
    /\ Free(e)
    /\ \E u \in Updates :
        /\ Arrives(e, "start", u)
        /\ IF ~u.message
           THEN Raise(e, "AttributeError") /\ UNCHANGED replies
           ELSE \E ok \in BOOLEAN :
                  /\ replies' = Push(replies, e, [text |-> GREETING, ok |-> ok])
                  /\ IF ok THEN Goto(e, "returned") ELSE Raise(e, "TelegramError")
    /\ UNCHANGED << env, phase, handlers, error_handlers, files, creates,
                    forwarded, log, built >>

\* A plausible slip: the record is saved before the acknowledgment is sent.
handle_text_save_first(e) ==
    \/ /\ Free(e)
       /\ \E u \in Updates :
           /\ Arrives(e, "handle_text", u)
           /\ IF ~u.message
              THEN /\ Raise(e, "AttributeError")
                   /\ UNCHANGED << replies, log, creates, forwarded >>
              ELSE \E outcome \in CreateOutcomes, ok \in BOOLEAN :
                     LET r == save_to_notion(get_text_properties(u.text[1]), outcome)
                     IN  /\ creates' = Extend(creates, e, r.calls)
                         /\ log' = Extend(Push(log, e, LOG_TEXT), e, r.logs)
                         /\ forwarded' = Push(forwarded, e,
                                              [raised |-> r.raised, value |-> r.value])
                         /\ replies' = Push(replies, e, [text |-> ACK_TEXT, ok |-> ok])
                         /\ IF ok THEN Goto(e, "handle_text:112")
                                  ELSE Raise(e, "TelegramError")
       /\ UNCHANGED << env, phase, handlers, error_handlers, files, built >>
    \/ /\ At(e, "handle_text:112")
       /\ \E ok \in BOOLEAN :
            /\ replies' = Push(replies, e,
                               [text |-> IF Success(e) THEN OK_TEXT ELSE OUPS, ok |-> ok])
            /\ IF ok THEN Goto(e, "returned") ELSE Raise(e, "TelegramError")
       /\ UNCHANGED << env, phase, handlers, error_handlers, update, files, creates,
                       forwarded, log, built >>

handle_text(e) ==
    \/ \* lines 103-107
       /\ Free(e)
       /\ \E u \in Updates :
           /\ Arrives(e, "handle_text", u)
           /\ IF ~u.message
              THEN Raise(e, "AttributeError") /\ UNCHANGED << replies, log >>
              ELSE /\ log' = Push(log, e, LOG_TEXT)
                   /\ \E ok \in BOOLEAN :
                        /\ replies' = Push(replies, e, [text |-> ACK_TEXT, ok |-> ok])
                        /\ IF ok THEN Goto(e, "handle_text:109")
                                 ELSE Raise(e, "TelegramError")
       /\ UNCHANGED << env, phase, handlers, error_handlers, files, creates,
                       forwarded, built >>
    \/ \* lines 109-110
       /\ At(e, "handle_text:109")
       /\ \E outcome \in CreateOutcomes :
            LET message_text == update[e].text[1]
                properties == get_text_properties(message_text)
                r == save_to_notion(properties, outcome)
            IN  /\ creates' = Extend(creates, e, r.calls)
                /\ log' = Extend(log, e, r.logs)
                /\ forwarded' = Push(forwarded, e, [raised |-> r.raised, value |-> r.value])
                /\ IF r.raised THEN Raise(e, outcome) ELSE Goto(e, "handle_text:112")
       /\ UNCHANGED << env, phase, handlers, error_handlers, update, replies, files, built >>
    \/ \* lines 112-115
       /\ At(e, "handle_text:112")
       /\ \E ok \in BOOLEAN :
            /\ replies' = Push(replies, e,
                               [text |-> IF Success(e) THEN OK_TEXT ELSE OUPS, ok |-> ok])
            /\ IF ok THEN Goto(e, "returned") ELSE Raise(e, "TelegramError")
       /\ UNCHANGED << env, phase, handlers, error_handlers, update, files, creates,
                       forwarded, log, built >>

\* await context.bot.get_file(file_id): a File with its download URL, or it raises.
GetFile(e, file_id, next) ==
    \E ok \in BOOLEAN :
        /\ files' = Push(files, e, [file_id |-> file_id, ok |-> ok,
                                    file_path |-> IF ok THEN FilePath[file_id] ELSE ""])
        /\ IF ok THEN Goto(e, next) ELSE Raise(e, "TelegramError")

File(e) == [file_path |-> files[e][Len(files[e])].file_path]

handle_photo(e) ==
    \/ \* lines 119-122
       /\ Free(e)
       /\ \E u \in Updates :
           /\ Arrives(e, "handle_photo", u)
           /\ log' = Push(log, e, LOG_PHOTO)
           /\ IF ~u.message
              THEN Raise(e, "AttributeError") /\ UNCHANGED replies
              ELSE /\ \E ok \in BOOLEAN :
                        /\ replies' = Push(replies, e, [text |-> ACK_PHOTO, ok |-> ok])
                        /\ IF ok THEN Goto(e, "handle_photo:125")
                                 ELSE Raise(e, "TelegramError")
       /\ UNCHANGED << env, phase, handlers, error_handlers, files, creates,
                       forwarded, built >>
    \/ \* line 125: the last photo size is the largest
       /\ At(e, "handle_photo:125")
       /\ GetFile(e, update[e].photo[Len(update[e].photo)].file_id, "handle_photo:127")
       /\ UNCHANGED << env, phase, handlers, error_handlers, update, replies, creates,
                       forwarded, log, built >>
    \/ \* lines 127-128
       /\ At(e, "handle_photo:127")
       /\ \E outcome \in CreateOutcomes, now \in RunClocks :
            LET properties == get_file_properties(File(e), TYPE_IMAGE, None, now)
                r == save_to_notion(properties, outcome)
            IN  /\ creates' = Extend(creates, e, r.calls)
                /\ log' = Extend(log, e, r.logs)
                /\ forwarded' = Push(forwarded, e, [raised |-> r.raised, value |-> r.value])
                /\ IF r.raised THEN Raise(e, outcome) ELSE Goto(e, "handle_photo:130")
       /\ UNCHANGED << env, phase, handlers, error_handlers, update, replies, files, built >>
    \/ \* lines 130-133
       /\ At(e, "handle_photo:130")
       /\ \E ok \in BOOLEAN :
            /\ replies' = Push(replies, e,
                               [text |-> IF Success(e) THEN OK_PHOTO ELSE OUPS, ok |-> ok])
            /\ IF ok THEN Goto(e, "returned") ELSE Raise(e, "TelegramError")
       /\ UNCHANGED << env, phase, handlers, error_handlers, update, files, creates,
                       forwarded, log, built >>

handle_document(e) ==
    \/ \* lines 138-142
       /\ Free(e)
       /\ \E u \in Updates :
           /\ Arrives(e, "handle_document", u)
           /\ IF ~u.message
              THEN Raise(e, "AttributeError") /\ UNCHANGED << replies, log >>
              ELSE /\ log' = Push(log, e, LOG_DOCUMENT)
                   /\ \E ok \in BOOLEAN :
                        /\ replies' = Push(replies, e, [text |-> ACK_DOCUMENT, ok |-> ok])
                        /\ IF ok THEN Goto(e, "handle_document:144")
                                 ELSE Raise(e, "TelegramError")
       /\ UNCHANGED << env, phase, handlers, error_handlers, files, creates,
                       forwarded, built >>
    \/ \* line 144
       /\ At(e, "handle_document:144")
       /\ GetFile(e, update[e].document[1].file_id, "handle_document:146")
       /\ UNCHANGED << env, phase, handlers, error_handlers, update, replies, creates,
                       forwarded, log, built >>
    \/ \* lines 146-147
       /\ At(e, "handle_document:146")
       /\ \E outcome \in CreateOutcomes, now \in RunClocks :
            LET doc == update[e].document[1]
                properties == get_file_properties(File(e), TYPE_DOCUMENT, doc.file_name, now)
                r == save_to_notion(properties, outcome)
            IN  /\ creates' = Extend(creates, e, r.calls)
                /\ log' = Extend(log, e, r.logs)
                /\ forwarded' = Push(forwarded, e, [raised |-> r.raised, value |-> r.value])
                /\ IF r.raised THEN Raise(e, outcome) ELSE Goto(e, "handle_document:149")
       /\ UNCHANGED << env, phase, handlers, error_handlers, update, replies, files, built >>
    \/ \* lines 149-152
       /\ At(e, "handle_document:149")
       /\ \E ok \in BOOLEAN :
            /\ replies' = Push(replies, e,
                   [text |-> IF Success(e) THEN OK_DOCUMENT(update[e].document[1].file_name)
                                           ELSE OUPS,
                    ok |-> ok])
            /\ IF ok THEN Goto(e, "returned") ELSE Raise(e, "TelegramError")
       /\ UNCHANGED << env, phase, handlers, error_handlers, update, files, creates,
                       forwarded, log, built >>

(***************************************************************************)
(* Error handler.                                                          *)
(***************************************************************************)
\* A plausible slip: the reply is not wrapped in try/except.
error_handler_run_no_try(u, reply_ok) ==
    IF u.is_update /\ u.effective_message
    THEN [ logs    |-> << LOG_UPDATE_ERROR >>,
           replies |-> << [text |-> DESOLE, ok |-> reply_ok] >>,
           raised  |-> ~reply_ok ]
    ELSE [ logs |-> << LOG_UPDATE_ERROR >>, replies |-> << >>, raised |-> FALSE ]

\* A plausible slip: the error handler only logs.
error_handler_run_silent(u, reply_ok) ==
    [ logs |-> << LOG_UPDATE_ERROR >>, replies |-> << >>, raised |-> FALSE ]

\* error_handler for update u when its reply_text ends with reply_ok: the
\* records it logs, the replies it attempts and whether it raises.
error_handler_run(u, reply_ok) ==
    IF u.is_update /\ u.effective_message
    THEN [ logs    |-> << LOG_UPDATE_ERROR >>
                       \o (IF reply_ok THEN << >> ELSE << LOG_REPLY_ERROR >>),
           replies |-> << [text |-> DESOLE, ok |-> reply_ok] >>,
           raised  |-> FALSE ]
    ELSE [ logs |-> << LOG_UPDATE_ERROR >>, replies |-> << >>, raised |-> FALSE ]

\* The Application passes an exception raised by a handler to the registered
\* error handler (line 179).
error_handler(e) ==
    /\ At(e, "raised")
    /\ "error_handler" \in error_handlers
    /\ \E reply_ok \in (IF update[e].is_update /\ update[e].effective_message
                        THEN BOOLEAN ELSE { TRUE }) :
         LET r == error_handler_run(update[e], reply_ok)
         IN  /\ log' = Extend(log, e, r.logs)
             /\ replies' = Extend(replies, e, r.replies)
             /\ pc' = [pc EXCEPT ![e] = [at |-> IF r.raised THEN "error_handler_raised"
                                                            ELSE "handled",
                                         error |-> @.error]]
    /\ UNCHANGED << env, phase, handlers, error_handlers, update, files, creates,
                    forwarded, built >>

\* A failure of the polling request itself reaches the error handler with no
\* update (line 183).
polling_error(e) ==
    /\ Free(e)
    /\ Raise(e, "NetworkError")
    /\ UNCHANGED << env, phase, handlers, error_handlers, update, replies, files,
                    creates, forwarded, log, built >>

(***************************************************************************)
(* Specification of the process.                                           *)
(***************************************************************************)
Init ==
    /\ env \in [ConfigKeys -> EnvValues]
    /\ phase = "import"
    /\ handlers = << >>
    /\ error_handlers = { }
    /\ update = [e \in Slots |-> NoUpdate]
    /\ pc = [e \in Slots |-> [at |-> "idle", error |-> "none"]]
    /\ replies = [e \in Slots |-> << >>]
    /\ files = [e \in Slots |-> << >>]
    /\ creates = [e \in Slots |-> << >>]
    /\ forwarded = [e \in Slots |-> << >>]
    /\ log = [e \in Slots |-> << >>]
    /\ built = [fn |-> "none"]

Next ==
    \/ load_config
    \/ init_notion
    \/ main
    \/ \E e \in Slots : start(e)
    \/ \E e \in Slots : handle_text(e)
    \/ \E e \in Slots : handle_photo(e)
    \/ \E e \in Slots : handle_document(e)
    \/ \E e \in Slots : error_handler(e)
    \/ \E e \in Slots : polling_error(e)

Spec == Init /\ [][Next]_vars

(***************************************************************************)
(* Specification of the record builders alone: a behaviour is one call of  *)
(* a builder on an input drawn from the input sets.                        *)
(***************************************************************************)
build_text ==
    /\ built.fn = "none"
    /\ \E text \in TextInputs :
         built' = [ fn |-> "get_text_properties", text |-> text,
                    result |-> get_text_properties(text) ]
    /\ UNCHANGED procVars

build_file ==
    /\ built.fn = "none"
    /\ \E file \in FileInputs, file_type \in KindInputs, filename \in NameInputs,
          now \in Clocks :
         built' = [ fn |-> "get_file_properties", file |-> file, file_type |-> file_type,
                    filename |-> filename, now |-> now,
                    result |-> get_file_properties(file, file_type, filename, now) ]
    /\ UNCHANGED procVars

InitBuilders == Init /\ ConfigComplete

NextBuilders == build_text \/ build_file

SpecBuilders == InitBuilders /\ [][NextBuilders]_vars

(***************************************************************************)
(* Properties of the record builders.                                      *)
(***************************************************************************)
\* name is the first `cut` characters of head ++ ": " ++ tail.
IsCutTitle(name, head, tail, cut) ==
    /\ Len(name) = Min(cut, Len(head) + 2 + Len(tail))
    /\ \A i \in 1..Len(name) :
         name[i] = IF i <= Len(head) THEN head[i]
                   ELSE IF i = Len(head) + 1 THEN ":"
                   ELSE IF i = Len(head) + 2 THEN " "
                   ELSE tail[i - Len(head) - 2]

IsDigit(c) == \E d \in 0..9 : Digits[d + 1] = c
DigitVal(c) == CHOOSE d \in 0..9 : Digits[d + 1] = c
NumVal(ds) == IF Len(ds) = 2 THEN 10 * DigitVal(ds[1]) + DigitVal(ds[2])
              ELSE 1000 * DigitVal(ds[1]) + 100 * DigitVal(ds[2])
                   + 10 * DigitVal(ds[3]) + DigitVal(ds[4])

\* ts reads YYYY-MM-DD_HH-MM-SS and names the instant `now`.
IsTimestampOf(ts, now) ==
    /\ Len(ts) = 19
    /\ \A i \in { 5, 8, 14, 17 } : ts[i] = "-"
    /\ ts[11] = "_"
    /\ \A i \in (1..19) \ { 5, 8, 11, 14, 17 } : IsDigit(ts[i])
    /\ NumVal(SubSeq(ts, 1, 4)) = now.year
    /\ NumVal(SubSeq(ts, 6, 7)) = now.month
    /\ NumVal(SubSeq(ts, 9, 10)) = now.day
    /\ NumVal(SubSeq(ts, 12, 13)) = now.hour
    /\ NumVal(SubSeq(ts, 15, 16)) = now.minute
    /\ NumVal(SubSeq(ts, 18, 19)) = now.second

FileRecordAsClaimed(given) ==
    built.fn = "get_file_properties" =>
        LET p == built.result
            kind == built.file_type
        IN  /\ TypeOf(p) = kind
            /\ UrlOf(p) = built.file.file_path
            /\ Len(NameOf(p)) <= 100
            /\ IF given
               THEN IsCutTitle(NameOf(p), kind, built.filename[1], 100)
               ELSE \E ts \in { strftime(c) : c \in Clocks } :
                       /\ IsTimestampOf(ts, built.now)
                       /\ IsCutTitle(NameOf(p), kind, ts, 100)

\* C3 as stated: the title is built from the file name whenever one is given,
\* and from the timestamp only when it is omitted.
C3_AsStated == FileRecordAsClaimed(built.filename # None)

\* C3, amended: the title is built from the file name when a non-empty one is
\* given, and from the timestamp YYYY-MM-DD_HH-MM-SS when the file name is
\* omitted or empty; Type is the kind, Fichier URL the given URL, and the
\* title is never longer than 100 characters.
C3_FileRecord == FileRecordAsClaimed(Truthy(built.filename))

\* C3 witness: a file name too long for the title was given and the title was
\* cut to 100 characters.
C3_Witness ==
    /\ built.fn = "get_file_properties"
    /\ Truthy(built.filename)
    /\ Len(built.file_type) + 2 + Len(built.filename[1]) > 100
    /\ Len(NameOf(built.result)) = 100

(***************************************************************************)
(* Properties of the process.                                              *)
(***************************************************************************)
IsText(u) == Accepts("handle_text", u)
IsPhoto(u) == Accepts("handle_photo", u)
IsDocument(u) == Accepts("handle_document", u)
IsStart(u) == Accepts("start", u)
\* The update in slot e is a text, photo or document event.
IsSaveEvent(e) == IsText(update[e]) \/ IsPhoto(update[e]) \/ IsDocument(update[e])

\* Handling of the update in slot e is over.
Finished(e) == pc[e].at \in { "returned", "handled", "error_handler_raised" }

\* The messages the user received for slot e, in order: those whose
\* reply_text call completed.
Delivered(e) == SelectSeq(replies[e], LAMBDA r : r.ok)

AckOf(u) == IF IsText(u) THEN ACK_TEXT ELSE IF IsPhoto(u) THEN ACK_PHOTO ELSE ACK_DOCUMENT
SuccessOf(u) == IF IsText(u) THEN OK_TEXT
                ELSE IF IsPhoto(u) THEN OK_PHOTO
                ELSE OK_DOCUMENT(u.document[1].file_name)
IsAck(m) == m \in { ACK_TEXT, ACK_PHOTO, ACK_DOCUMENT }
IsSuccessText(m) == m.tmpl \in { OK_TEXT.tmpl, OK_PHOTO.tmpl, OK_DOCUMENT(None).tmpl }
IsFailureText(m) == m \in { OUPS, DESOLE }
IsOutcome(m) == IsSuccessText(m) \/ IsFailureText(m)
Count(seq, P(_)) == Cardinality({ i \in 1..Len(seq) : P(seq[i].text) })

\* C2: every payload given to notion.pages.create has Name, Type and exactly
\* one of Contenu and Fichier URL: Contenu for a text event with Type Texte,
\* Fichier URL for a photo (Type Image) or a document (Type Document).
C2_PayloadShape ==
    \A e \in Slots : \A i \in 1..Len(creates[e]) :
        LET p == creates[e][i].properties
            u == update[e]
        IN  /\ IsSaveEvent(e)
            /\ IsText(u) => /\ DOMAIN p = { "Name", "Type", "Contenu" }
                            /\ TypeOf(p) = << "T","e","x","t","e" >>
            /\ IsPhoto(u) => /\ DOMAIN p = { "Name", "Type", "Fichier URL" }
                             /\ TypeOf(p) = << "I","m","a","g","e" >>
            /\ IsDocument(u) => /\ DOMAIN p = { "Name", "Type", "Fichier URL" }
                                /\ TypeOf(p) = << "D","o","c","u","m","e","n","t" >>

\* C2 witness: a text payload and a file payload have both been sent.
C2_Witness ==
    \E e, f \in Slots :
        /\ IsText(update[e]) /\ Len(creates[e]) = 1
        /\ IsDocument(update[f]) /\ Len(creates[f]) = 1

\* C4: save_to_notion never raises; it returns True exactly when the
\* create call ended without error, False after APIResponseError and after
\* any other exception.
C4_ForwarderTotal ==
    \A e \in Slots :
        /\ pc[e].error \notin CreateOutcomes
        /\ \A i \in 1..Len(forwarded[e]) :
             /\ ~forwarded[e][i].raised
             /\ Len(creates[e]) >= 1
             /\ forwarded[e][i].value = (creates[e][Len(creates[e])].outcome = "ok")

\* C4 witness: the create call failed with a plain exception, save_to_notion
\* returned False and the handler went on to its reply.
C4_Witness ==
    \E e \in Slots :
        /\ Len(creates[e]) = 1 /\ creates[e][1].outcome = "Exception"
        /\ forwarded[e] = << [raised |-> FALSE, value |-> FALSE] >>
        /\ At(e, "returned")

C6_AtMostOneCreate ==
    \A e \in Slots :
        /\ Len(creates[e]) <= 1
        /\ Len(creates[e]) = 1 =>
             /\ IsSaveEvent(e)
             /\ Len(forwarded[e]) = 1
             /\ replies[e] # << >> /\ replies[e][1] = [text |-> AckOf(update[e]), ok |-> TRUE]
             /\ ~IsText(update[e]) => (Len(files[e]) = 1 /\ files[e][1].ok)

\* C6 witness: two updates were handled, the create call of each failed, one
\* of them ended in the error handler, and each made exactly one create call.
C6_Witness ==
    \E e, f \in Slots :
        /\ e # f
        /\ At(e, "handled") /\ Len(creates[e]) = 1 /\ creates[e][1].outcome # "ok"
        /\ At(f, "returned") /\ Len(creates[f]) = 1 /\ creates[f][1].outcome # "ok"

\* The order of a saving handler's steps, as far as it got: the create call
\* comes after the delivered acknowledgment and, for a file, after the file
\* was resolved to the URL the payload carries; an outcome reply comes after
\* save_to_notion returned; a handler that returned did all the steps.
StepsInOrder(e) ==
    LET u == update[e]
    IN  /\ creates[e] # << >> =>
             /\ replies[e] # << >> /\ replies[e][1] = [text |-> AckOf(u), ok |-> TRUE]
             /\ ~IsText(u) =>
                  /\ Len(files[e]) = 1 /\ files[e][1].ok
                  /\ UrlOf(creates[e][1].properties) = files[e][1].file_path
        /\ files[e] # << >> =>
             replies[e] # << >> /\ replies[e][1] = [text |-> AckOf(u), ok |-> TRUE]
        /\ (\E i \in 1..Len(replies[e]) :
               IsSuccessText(replies[e][i].text) \/ replies[e][i].text = OUPS) =>
             /\ Len(forwarded[e]) = 1
             /\ Len(creates[e]) = 1
             /\ replies[e][2].text \in { SuccessOf(u), OUPS }
        /\ At(e, "returned") =>
             /\ Len(replies[e]) = 2
             /\ Len(creates[e]) = 1
             /\ Len(forwarded[e]) = 1
             /\ replies[e][2].text = IF forwarded[e][1].value THEN SuccessOf(u) ELSE OUPS

\* C7 as stated: all four handlers, start included, acknowledge, build the
\* payload, call the forwarder and reply with the outcome, in this order.
C7_AsStated ==
    \A e \in Slots : (IsSaveEvent(e) \/ IsStart(update[e])) => StepsInOrder(e)

\* C7, amended: handle_text, handle_photo and handle_document acknowledge,
\* then resolve the event to a payload (a file event's identifier is resolved
\* to its URL first), then call the forwarder, then reply with success or the
\* failure text, each step only when the one before it did not raise; start
\* only sends its greeting and never calls the forwarder.
C7_HandlerOrder ==
    \A e \in Slots :
        /\ IsSaveEvent(e) => StepsInOrder(e)
        /\ IsStart(update[e]) =>
             /\ creates[e] = << >> /\ forwarded[e] = << >> /\ files[e] = << >>
             /\ \A i \in 1..Len(replies[e]) : replies[e][i].text \in { GREETING, DESOLE }
             /\ At(e, "returned") => replies[e] = << [text |-> GREETING, ok |-> TRUE] >>

\* C7 witness: a document handler ran all its steps and returned, and a
\* /start was answered with the greeting.
C7_Witness ==
    \E e, f \in Slots :
        /\ IsDocument(update[e]) /\ At(e, "returned") /\ forwarded[e][1].value
        /\ IsStart(update[f]) /\ At(f, "returned")

\* C8: an exception raised by a handler reaches the error handler, which logs
\* it, attempts exactly one generic reply when the update carries a message
\* (none otherwise), logs and swallows a failure of that reply, and never
\* raises; the process keeps polling.
C8_ErrorHandler ==
    \A e \in Slots :
        /\ pc[e].at # "error_handler_raised"
        /\ At(e, "raised") => "error_handler" \in error_handlers
        /\ At(e, "handled") =>
             LET n == Len(replies[e])
                 carries == update[e].is_update /\ update[e].effective_message
             IN  /\ phase = "polling"
                 /\ Cardinality({ i \in 1..Len(log[e]) : log[e][i] = LOG_UPDATE_ERROR }) = 1
                 /\ Count(replies[e], LAMBDA m : m = DESOLE) = (IF carries THEN 1 ELSE 0)
                 /\ carries => replies[e][n].text = DESOLE
                 /\ (carries /\ ~replies[e][n].ok) => log[e][Len(log[e])] = LOG_REPLY_ERROR
                 /\ (carries /\ replies[e][n].ok) => log[e][Len(log[e])] = LOG_UPDATE_ERROR
        /\ pc[e].at \notin { "raised", "handled" } =>
             Count(replies[e], LAMBDA m : m = DESOLE) = 0

\* C8 witness: the error handler's own reply failed, the failure was logged,
\* and another update was handled to the end.
C8_Witness ==
    \E e, f \in Slots :
        /\ e < f
        /\ At(e, "handled")
        /\ replies[e][Len(replies[e])] = [text |-> DESOLE, ok |-> FALSE]
        /\ log[e][Len(log[e])] = LOG_REPLY_ERROR
        /\ At(f, "returned")

AllConfigured ==
    \A k \in ConfigKeys : env[k] # None /\ env[k] # Some(<< >>)

\* C9: with any of the three configuration values unset or empty the process
\* stops before main: no handler is registered, no update is handled and no
\* remote call is made; it polls only when all three are present.
C9_ConfigRequired ==
    /\ ~AllConfigured =>
         /\ phase \in { "import", "crashed" }
         /\ handlers = << >> /\ error_handlers = { }
         /\ \A e \in Slots :
              /\ At(e, "idle")
              /\ replies[e] = << >> /\ files[e] = << >> /\ creates[e] = << >>
    /\ phase \in { "configured", "ready", "polling", "exited" } => AllConfigured
    /\ (handlers # << >> \/ \E e \in Slots : ~At(e, "idle")) => phase = "polling"

\* C9 witness: a value is set but empty and the process has stopped.
C9_Witness ==
    /\ phase = "crashed"
    /\ env["NOTION_DATABASE_ID"] = Some(<< >>)
    /\ env["TELEGRAM_BOT_TOKEN"] # None /\ env["NOTION_API_KEY"] # Some(<< >>)

\* C10: a success text is sent for an update only after the create call of
\* that same update succeeded, and it is the text of the update's kind; once
\* save_to_notion returned False the reply the handler sends is the generic
\* failure sentence.
C10_HonestOutcome ==
    \A e \in Slots :
        /\ \A i \in 1..Len(replies[e]) :
             IsSuccessText(replies[e][i].text) =>
                 /\ Len(creates[e]) = 1 /\ creates[e][1].outcome = "ok"
                 /\ replies[e][i].text = SuccessOf(update[e])
        /\ (/\ Len(creates[e]) >= 1
            /\ creates[e][Len(creates[e])].outcome # "ok"
            /\ pc[e].at \in { "returned", "raised", "handled" }) =>
             /\ Len(replies[e]) >= 2
             /\ replies[e][2].text = OUPS

\* C10 witness: of two updates handled side by side one was saved and
\* answered with its success text, the other failed and was answered with the
\* failure sentence.
C10_Witness ==
    \E e, f \in Slots :
        /\ Len(creates[e]) = 1 /\ creates[e][1].outcome = "ok"
        /\ Delivered(e) = << [text |-> AckOf(update[e]), ok |-> TRUE],
                             [text |-> SuccessOf(update[e]), ok |-> TRUE] >>
        /\ Len(creates[f]) = 1 /\ creates[f][1].outcome = "APIResponseError"
        /\ Delivered(f) = << [text |-> AckOf(update[f]), ok |-> TRUE],
                             [text |-> OUPS, ok |-> TRUE] >>

====
